---- MODULE Spec2Model ----
(***************************************************************************)
(* StockTracker: the technical-indicator calculators and the chart         *)
(* composition of src/utils/technical_indicators.py.                       *)
(*                                                                         *)
(* Numbers.  pandas computes in IEEE doubles; the model computes in exact  *)
(* extended rationals: a value is a number n/d (d > 0, lowest terms), NaN  *)
(* (pandas' undefined entry) or a signed infinity (what a double division  *)
(* by zero yields).  Rounding is not modelled.                             *)
(*                                                                         *)
(* Positions.  Python positions 0..n-1 are the model's 1..n: bar i of the  *)
(* source is element i+1 of a sequence here.                               *)
(***************************************************************************)
EXTENDS Integers, Sequences, FiniteSets, TLC

(***************************************************************************)
(* Bounds of the model.                                                    *)
(***************************************************************************)
MaxLen == 3
MaxWindow == 2

Prices == 1..2
Volumes == 1..2
Windows == 1..MaxWindow
NumStds == {0, 1, 2}
Smoothings == {1, 2}

(***************************************************************************)
(* Extended rationals (the doubles of the source).                         *)
(***************************************************************************)
Abs(x) == IF x < 0 THEN -x ELSE x

RECURSIVE GCD(_, _)
GCD(a, b) == IF b = 0 THEN a ELSE GCD(b, a % b)

NaN == [k |-> "nan", n |-> 0, d |-> 1]
Inf(s) == [k |-> "inf", n |-> s, d |-> 1]
Num(n, d) == LET g == GCD(Abs(n), d) IN [k |-> "num", n |-> n \div g, d |-> d \div g]
Int2Val(i) == [k |-> "num", n |-> i, d |-> 1]
Zero == Int2Val(0)
One == Int2Val(1)
Hundred == Int2Val(100)

IsNum(x) == x.k = "num"
IsNaN(x) == x.k = "nan"
Sgn(x) == IF x.n > 0 THEN 1 ELSE IF x.n < 0 THEN -1 ELSE 0

Neg(x) == IF IsNaN(x) THEN NaN ELSE [x EXCEPT !.n = -x.n]

Add(x, y) ==
    IF IsNaN(x) \/ IsNaN(y) THEN NaN
    ELSE IF x.k = "inf" /\ y.k = "inf" THEN (IF x.n = y.n THEN x ELSE NaN)
    ELSE IF x.k = "inf" THEN x
    ELSE IF y.k = "inf" THEN y
    ELSE Num(x.n * y.d + y.n * x.d, x.d * y.d)

Sub(x, y) == Add(x, Neg(y))

Mul(x, y) ==
    IF IsNaN(x) \/ IsNaN(y) THEN NaN
    ELSE IF x.k = "inf" \/ y.k = "inf"
         THEN (IF Sgn(x) * Sgn(y) = 0 THEN NaN ELSE Inf(Sgn(x) * Sgn(y)))
    ELSE Num(x.n * y.n, x.d * y.d)

\* double division: x/0 is a signed infinity, 0/0 is NaN, x/inf is 0
Div(x, y) ==
    IF IsNaN(x) \/ IsNaN(y) THEN NaN
    ELSE IF x.k = "inf" /\ y.k = "inf" THEN NaN
    ELSE IF x.k = "inf" THEN Inf(IF Sgn(y) < 0 THEN -x.n ELSE x.n)
    ELSE IF y.k = "inf" THEN Zero
    ELSE IF y.n = 0 THEN (IF x.n = 0 THEN NaN ELSE Inf(Sgn(x)))
    ELSE Num(x.n * y.d * Sgn(y), x.d * Abs(y.n))

AbsVal(x) == IF IsNaN(x) THEN NaN ELSE [x EXCEPT !.n = Abs(x.n)]

\* x < y and x <= y on defined values (a comparison with NaN is false)
Lt(x, y) ==
    /\ ~IsNaN(x) /\ ~IsNaN(y)
    /\ IF x.k = "inf" \/ y.k = "inf"
       THEN (IF x.k = "inf" /\ y.k = "inf" THEN x.n < y.n
             ELSE IF x.k = "inf" THEN x.n < 0 ELSE y.n > 0)
       ELSE x.n * y.d < y.n * x.d
Leq(x, y) == ~IsNaN(x) /\ ~IsNaN(y) /\ (x = y \/ Lt(x, y))

(***************************************************************************)
(* The input Series: OHLCV bars, Low <= Open, Close <= High.  No calculator *)
(* reads Open; the Series tried have bars that open where they close.      *)
(***************************************************************************)
BarSet ==
    {b \in [Open : Prices, High : Prices, Low : Prices, Close : Prices, Volume : Volumes] :
        /\ b.Low <= b.Close /\ b.Close <= b.High
        /\ b.Open = b.Close}

RECURSIVE SeqsUpTo(_, _)
SeqsUpTo(S, n) ==
    IF n = 0 THEN {<<>>}
    ELSE LET shorter == SeqsUpTo(S, n - 1)
         IN shorter \cup {Append(s, x) : s \in {t \in shorter : Len(t) = n - 1}, x \in S}

SeriesSet == SeqsUpTo(BarSet, MaxLen)

\* data[column]
Column(data, column) == [i \in 1..Len(data) |-> Int2Val(data[i][column])]

(***************************************************************************)
(* Series math primitives (the pandas operations the calculators use).     *)
(***************************************************************************)
\* Series.diff(): undefined at the first position
diff(s) == [i \in 1..Len(s) |-> IF i = 1 THEN NaN ELSE Sub(s[i], s[i - 1])]

\* Series.shift(): undefined at the first position
shift(s) == [i \in 1..Len(s) |-> IF i = 1 THEN NaN ELSE s[i - 1]]

\* delta.where(delta > 0, 0) and delta.where(delta < 0, 0): NaN fails the
\* comparison and is replaced by 0
where_pos(s) == [i \in 1..Len(s) |-> IF Lt(Zero, s[i]) THEN s[i] ELSE Zero]
where_neg(s) == [i \in 1..Len(s) |-> IF Lt(s[i], Zero) THEN s[i] ELSE Zero]

SeqNeg(s) == [i \in 1..Len(s) |-> Neg(s[i])]
SeqSub(s, t) == [i \in 1..Len(s) |-> Sub(s[i], t[i])]
SeqDiv(s, t) == [i \in 1..Len(s) |-> Div(s[i], t[i])]
SeqAbs(s) == [i \in 1..Len(s) |-> AbsVal(s[i])]

RECURSIVE SumRange(_, _, _)
SumRange(s, lo, hi) == IF lo > hi THEN Zero ELSE Add(s[hi], SumRange(s, lo, hi - 1))

\* a full trailing window of defined values ends at position i
FullWindow(s, window, i) ==
    /\ window >= 1
    /\ i >= window
    /\ \A j \in (i - window + 1)..i : IsNum(s[j])

\* Series.rolling(window=window).mean(): min_periods = window
rolling_mean(s, window) ==
    [i \in 1..Len(s) |->
        IF FullWindow(s, window, i)
        THEN Div(SumRange(s, i - window + 1, i), Int2Val(window))
        ELSE NaN]

\* Series.rolling(window=window).min() / .max()
rolling_min(s, window) ==
    [i \in 1..Len(s) |->
        IF FullWindow(s, window, i)
        THEN CHOOSE m \in {s[j] : j \in (i - window + 1)..i} :
                 \A j \in (i - window + 1)..i : Leq(m, s[j])
        ELSE NaN]
rolling_max(s, window) ==
    [i \in 1..Len(s) |->
        IF FullWindow(s, window, i)
        THEN CHOOSE m \in {s[j] : j \in (i - window + 1)..i} :
                 \A j \in (i - window + 1)..i : Leq(s[j], m)
        ELSE NaN]

\* Series.ewm(span=span, adjust=False).mean(): y[0] = x[0],
\* y[i] = a*x[i] + (1-a)*y[i-1] with a = 2/(span+1); an undefined x[i]
\* carries y[i-1] forward
RECURSIVE ewm_at(_, _, _)
ewm_at(s, a, i) ==
    IF i = 1 THEN s[1]
    ELSE LET prev == ewm_at(s, a, i - 1)
         IN IF IsNaN(s[i]) THEN prev
            ELSE IF IsNaN(prev) THEN s[i]
            ELSE Add(Mul(a, s[i]), Mul(Sub(One, a), prev))
ewm_mean(s, span) == [i \in 1..Len(s) |-> ewm_at(s, Num(2, span + 1), i)]

(***************************************************************************)
(* Indicator calculators.  Each returns the exception it raised ("none"    *)
(* when it returned) and the tuple of its output series.                   *)
(***************************************************************************)
Returned(series) == [exc |-> "none", series |-> series]
Raised(exc) == [exc |-> exc, series |-> <<>>]

\* a moving average that drops its undefined leading entries (dropna)
sma_series_dropna(data, window) ==
    SelectSeq(rolling_mean(Column(data, "Close"), window), IsNum)

\* a moving average over the bars available so far (min_periods = 1)
sma_series_partial(data, window) ==
    [i \in 1..Len(data) |->
        LET lo == IF i >= window THEN i - window + 1 ELSE 1
        IN Div(SumRange(Column(data, "Close"), lo, i), Int2Val(i - lo + 1))]

\* add_moving_average: ma = data[column].rolling(window=window).mean()
sma_series(data, window) == rolling_mean(Column(data, "Close"), window)

\* an exponential average smoothed with a = 1/window
ema_series_wilder(data, window) ==
    [i \in 1..Len(data) |-> ewm_at(Column(data, "Close"), Num(1, window), i)]

\* add_exponential_moving_average:
\* ema = data[column].ewm(span=window, adjust=False).mean()
ema_series(data, window) == ewm_mean(Column(data, "Close"), window)

\* Band values are (a + b*sqrt(c)) / d with integers a, b, c >= 0, d > 0:
\* the rolling sample standard deviation is a square root.
SurdNaN == [k |-> "nan", a |-> 0, b |-> 0, c |-> 0, d |-> 1]
Surd(a, b, c, d) == [k |-> "num", a |-> a, b |-> b, c |-> c, d |-> d]

RECURSIVE IntSum(_, _, _, _)
IntSum(data, column, lo, hi) ==
    IF lo > hi THEN 0 ELSE data[hi][column] + IntSum(data, column, lo, hi - 1)
RECURSIVE IntSumSq(_, _, _, _)
IntSumSq(data, column, lo, hi) ==
    IF lo > hi THEN 0
    ELSE data[hi][column] * data[hi][column] + IntSumSq(data, column, lo, hi - 1)

\* add_bollinger_bands: ma = rolling(window).mean(), std = rolling(window).std()
\* (sample standard deviation, ddof = 1: undefined for a window of one bar),
\* upper_band = ma + (std * num_std), lower_band = ma - (std * num_std).
\* With S the window's sum and Q its sum of squares, ma = S/w and
\* std = sqrt((w*Q - S*S) / (w*(w-1))).  sign is +1 for the upper band, -1 for
\* the lower band.  (band_at_same_side: both bands on the upper side.)
band_at_same_side(data, window, num_std, sign, i) ==
    LET S == IntSum(data, "Close", i - window + 1, i)
        Q == IntSumSq(data, "Close", i - window + 1, i)
        w == window
    IN IF i < w \/ w < 2 THEN SurdNaN
       ELSE Surd(S * (w - 1), num_std, (w * Q - S * S) * w * (w - 1), w * (w - 1))

band_at(data, window, num_std, sign, i) ==
    LET S == IntSum(data, "Close", i - window + 1, i)
        Q == IntSumSq(data, "Close", i - window + 1, i)
        w == window
    IN IF i < w \/ w < 2 THEN SurdNaN
       ELSE Surd(S * (w - 1), sign * num_std, (w * Q - S * S) * w * (w - 1), w * (w - 1))

bollinger_ma(data, window) ==
    [i \in 1..Len(data) |->
        IF i < window THEN SurdNaN
        ELSE Surd(IntSum(data, "Close", i - window + 1, i), 0, 0, window)]
bollinger_upper(data, window, num_std) ==
    [i \in 1..Len(data) |-> band_at(data, window, num_std, 1, i)]
bollinger_lower(data, window, num_std) ==
    [i \in 1..Len(data) |-> band_at(data, window, num_std, -1, i)]

bollinger_bands(data, window, num_std) ==
    Returned(<<bollinger_ma(data, window),
               bollinger_upper(data, window, num_std),
               bollinger_lower(data, window, num_std)>>)

\* a loss series that keeps the sign of the falls
rsi_loss_signed(data) == where_neg(diff(Column(data, "Close")))

\* calculate_rsi
rsi_gain(data) == where_pos(diff(Column(data, "Close")))
rsi_loss(data) == SeqNeg(where_neg(diff(Column(data, "Close"))))
calculate_rsi(data, window) ==
    LET avg_gain == rolling_mean(rsi_gain(data), window)
        avg_loss == rolling_mean(rsi_loss(data), window)
        rs == SeqDiv(avg_gain, avg_loss)
    IN Returned(<<[i \in 1..Len(data) |-> Sub(Hundred, Div(Hundred, Add(One, rs[i])))]>>)

\* a MACD whose histogram is signal minus MACD
calculate_macd_reversed(data, fast_period, slow_period, signal_period) ==
    LET fast_ema == ewm_mean(Column(data, "Close"), fast_period)
        slow_ema == ewm_mean(Column(data, "Close"), slow_period)
        macd_line == SeqSub(fast_ema, slow_ema)
        signal_line == ewm_mean(macd_line, signal_period)
        histogram == SeqSub(signal_line, macd_line)
    IN Returned(<<macd_line, signal_line, histogram>>)

\* calculate_macd
calculate_macd(data, fast_period, slow_period, signal_period) ==
    LET fast_ema == ewm_mean(Column(data, "Close"), fast_period)
        slow_ema == ewm_mean(Column(data, "Close"), slow_period)
        macd_line == SeqSub(fast_ema, slow_ema)
        signal_line == ewm_mean(macd_line, signal_period)
        histogram == SeqSub(macd_line, signal_line)
    IN Returned(<<macd_line, signal_line, histogram>>)

\* a fast %K measured from the window's high instead of its low
stochastic_fast_k_from_high(data, k_period) ==
    LET low_min == rolling_min(Column(data, "Low"), k_period)
        high_max == rolling_max(Column(data, "High"), k_period)
        close == Column(data, "Close")
    IN [i \in 1..Len(data) |->
           Mul(Hundred, Div(Sub(close[i], high_max[i]), Sub(high_max[i], low_min[i])))]

\* a fast %K that reads 0 on a flat range
stochastic_fast_k_flat_zero(data, k_period) ==
    LET low_min == rolling_min(Column(data, "Low"), k_period)
        high_max == rolling_max(Column(data, "High"), k_period)
        close == Column(data, "Close")
    IN [i \in 1..Len(data) |->
           IF IsNum(high_max[i]) /\ high_max[i] = low_min[i] THEN Zero
           ELSE Mul(Hundred, Div(Sub(close[i], low_min[i]), Sub(high_max[i], low_min[i])))]

\* calculate_stochastic
stochastic_fast_k(data, k_period) ==
    LET low_min == rolling_min(Column(data, "Low"), k_period)
        high_max == rolling_max(Column(data, "High"), k_period)
        close == Column(data, "Close")
    IN [i \in 1..Len(data) |->
           Mul(Hundred, Div(Sub(close[i], low_min[i]), Sub(high_max[i], low_min[i])))]
calculate_stochastic(data, k_period, d_period, smooth_k) ==
    LET k == rolling_mean(stochastic_fast_k(data, k_period), smooth_k)
        d == rolling_mean(k, d_period)
    IN Returned(<<k, d>>)

\* DataFrame.max(axis=1): the largest defined value of the row
MaxDefined(vals) ==
    LET defined == {v \in vals : IsNum(v)}
    IN IF defined = {} THEN NaN
       ELSE CHOOSE m \in defined : \A v \in defined : Leq(v, m)

\* a true range that ignores the previous close
true_range_high_low(data) == SeqSub(Column(data, "High"), Column(data, "Low"))

\* calculate_atr
true_range(data) ==
    LET high == Column(data, "High")
        low == Column(data, "Low")
        prev_close == shift(Column(data, "Close"))
        high_low == SeqSub(high, low)
        high_close == SeqAbs(SeqSub(high, prev_close))
        low_close == SeqAbs(SeqSub(low, prev_close))
    IN [i \in 1..Len(data) |-> MaxDefined({high_low[i], high_close[i], low_close[i]})]
calculate_atr(data, window) == Returned(<<rolling_mean(true_range(data), window)>>)

\* an OBV loop that takes the previous bar's volume
RECURSIVE obv_loop_prev_volume(_, _, _)
obv_loop_prev_volume(data, obv, i) ==
    IF i > Len(data) THEN obv
    ELSE obv_loop_prev_volume(data,
                  [obv EXCEPT ![i] =
                      IF data[i].Close > data[i - 1].Close
                      THEN Add(obv[i - 1], Int2Val(data[i - 1].Volume))
                      ELSE IF data[i].Close < data[i - 1].Close
                      THEN Sub(obv[i - 1], Int2Val(data[i - 1].Volume))
                      ELSE obv[i - 1]],
                  i + 1)

\* calculate_on_balance_volume: the for loop from position i on
RECURSIVE obv_loop(_, _, _)
obv_loop(data, obv, i) ==
    IF i > Len(data) THEN obv
    ELSE obv_loop(data,
                  [obv EXCEPT ![i] =
                      IF data[i].Close > data[i - 1].Close
                      THEN Add(obv[i - 1], Int2Val(data[i].Volume))
                      ELSE IF data[i].Close < data[i - 1].Close
                      THEN Sub(obv[i - 1], Int2Val(data[i].Volume))
                      ELSE obv[i - 1]],
                  i + 1)

\* obv = pd.Series(index=data.index) is all undefined; obv.iloc[0] = 0 raises
\* IndexError on a series without a first position
calculate_on_balance_volume(data) ==
    IF Len(data) = 0 THEN Raised("IndexError")
    ELSE Returned(<<obv_loop(data, [i \in 1..Len(data) |-> IF i = 1 THEN Zero ELSE NaN], 2)>>)

(***************************************************************************)
(* The chart: create_technical_chart and the add_* functions.              *)
(***************************************************************************)
\* the windows create_technical_chart passes
SmaShortWindow == 50
SmaLongWindow == 200
EmaWindow == 20
BollingerWindow == 20
BollingerNumStd == 2
RsiWindow == 14
MacdFast == 12
MacdSlow == 26
MacdSignal == 9
StochK == 14
StochD == 3
StochSmoothK == 3
AtrWindow == 14
ObvEmaSpan == 20

Overlays == {"sma", "ema", "bollinger"}
Oscillators == {"rsi", "macd", "stoch", "atr", "obv"}
\* "vwap" stands for a name create_technical_chart does not know
IndicatorNames == Overlays \cup Oscillators \cup {"vwap"}

\* x in list
In(x, list) == \E i \in 1..Len(list) : list[i] = x

\* a figure: make_subplots' grid and what has been added to it
NoFig == [rows |-> 0, row_heights |-> <<>>, traces |-> <<>>, annotations |-> <<>>,
          yaxis_title |-> <<>>, xaxis_title_row |-> 0]

\* make_subplots(rows, cols=1, shared_xaxes=True, row_heights, subplot_titles):
\* each subplot title is an annotation of the layout
make_subplots(rows, row_heights, subplot_titles) ==
    [rows |-> rows, row_heights |-> row_heights, traces |-> <<>>,
     annotations |-> [i \in 1..Len(subplot_titles) |-> [text |-> subplot_titles[i], y |-> One]],
     yaxis_title |-> [r \in 1..rows |-> ""], xaxis_title_row |-> 0]

\* fig.add_trace(go.X(x=..., y=y, name=name), row=row, col=1); the window a
\* name carries ('50-day MA', 'RSI (14)') is left out of the name
add_trace(fig, name, y, row) ==
    [fig EXCEPT !.traces = Append(@, [name |-> name, row |-> row, y |-> y])]

\* fig.update_yaxes(title_text=title, row=row, col=1)
update_yaxes(fig, title, row) ==
    [fig EXCEPT !.yaxis_title = [r \in 1..fig.rows |-> IF r = row THEN title ELSE @[r]]]

\* fig.update_layout(annotations=[dict(text=text, ...)]): the layout's
\* annotation list is assigned
update_layout_annotations(fig, text, y) ==
    [fig EXCEPT !.annotations = <<[text |-> text, y |-> y]>>]

\* 1 - (current_row - 1.5) * heights[current_row - 1]
annotation_y(current_row, heights) ==
    Sub(One, Mul(Sub(Int2Val(current_row), Num(3, 2)), heights[current_row]))

\* a function that returned its figure, or raised
FigReturned(fig) == [exc |-> "none", fig |-> fig]
FigRaised(exc) == [exc |-> exc, fig |-> NoFig]

\* the y of a horizontal reference line: two points
Level(v) == <<Int2Val(v), Int2Val(v)>>

add_moving_average(fig, data, window, row) ==
    add_trace(fig, "MA", sma_series(data, window), row)

add_exponential_moving_average(fig, data, window, row) ==
    add_trace(fig, "EMA", ema_series(data, window), row)

add_bollinger_bands(fig, data, window, num_std, row) ==
    LET b == bollinger_bands(data, window, num_std).series
        f1 == add_trace(fig, "MA", b[1], row)
        f2 == add_trace(f1, "Upper Band", b[2], row)
        f3 == add_trace(f2, "Lower Band", b[3], row)
        f4 == add_trace(f3, "Upper Band", b[2], row)
    IN add_trace(f4, "Lower Band", b[3], row)

\* data['Date'].iloc[0] raises IndexError on a Series without bars
add_rsi(fig, data, window, row) ==
    LET rsi == calculate_rsi(data, window).series[1]
        f1 == add_trace(fig, "RSI", rsi, row)
        f2 == add_trace(f1, "Overbought", Level(70), row)
        f3 == add_trace(f2, "Oversold", Level(30), row)
        f4 == add_trace(f3, "Middle", Level(50), row)
    IN IF Len(data) = 0 THEN FigRaised("IndexError")
       ELSE FigReturned(update_yaxes(f4, "RSI", row))

add_macd(fig, data, fast_period, slow_period, signal_period, row) ==
    LET m == calculate_macd(data, fast_period, slow_period, signal_period).series
        f1 == add_trace(fig, "MACD", m[1], row)
        f2 == add_trace(f1, "Signal", m[2], row)
        f3 == add_trace(f2, "Histogram", m[3], row)
    IN FigReturned(update_yaxes(f3, "MACD", row))

add_stochastic(fig, data, k_period, d_period, smooth_k, row) ==
    LET kd == calculate_stochastic(data, k_period, d_period, smooth_k).series
        f1 == add_trace(fig, "%K", kd[1], row)
        f2 == add_trace(f1, "%D", kd[2], row)
        f3 == add_trace(f2, "Overbought", Level(80), row)
        f4 == add_trace(f3, "Oversold", Level(20), row)
    IN IF Len(data) = 0 THEN FigRaised("IndexError")
       ELSE FigReturned(update_yaxes(f4, "Stochastic", row))

\* an ATR panel that is left without its trace when the ATR has no value
add_atr_skip_undefined(fig, data, window, row) ==
    LET atr == calculate_atr(data, window).series[1]
    IN IF \A i \in 1..Len(atr) : IsNaN(atr[i])
       THEN FigReturned(update_yaxes(fig, "ATR", row))
       ELSE FigReturned(update_yaxes(add_trace(fig, "ATR", atr, row), "ATR", row))

add_atr(fig, data, window, row) ==
    LET atr == calculate_atr(data, window).series[1]
    IN FigReturned(update_yaxes(add_trace(fig, "ATR", atr, row), "ATR", row))

add_obv(fig, data, row) ==
    LET res == calculate_on_balance_volume(data)
        obv == res.series[1]
        f1 == add_trace(fig, "OBV", obv, row)
        f2 == add_trace(f1, "OBV EMA (20)", ewm_mean(obv, ObvEmaSpan), row)
    IN IF res.exc # "none" THEN FigRaised(res.exc)
       ELSE FigReturned(update_yaxes(f2, "OBV", row))

\* a count that takes an oscillator once for each time the list names it
count_subplots_per_mention(indicators) ==
    1 + Cardinality({i \in 1..Len(indicators) : indicators[i] \in Oscillators})

\* a count that takes every entry of the list, overlays too
count_subplots_every_entry(indicators) == 1 + Len(indicators)

\* subplot_count: one for the price chart, one for each oscillator named in
\* the list
count_subplots(indicators) ==
    1 + (IF In("rsi", indicators) THEN 1 ELSE 0)
      + (IF In("macd", indicators) THEN 1 ELSE 0)
      + (IF In("stoch", indicators) THEN 1 ELSE 0)
      + (IF In("atr", indicators) THEN 1 ELSE 0)
      + (IF In("obv", indicators) THEN 1 ELSE 0)

\* heights = [0.5], extended by (subplot_count - 1) times 0.5/(subplot_count - 1)
\* when subplot_count > 1
subplot_heights(subplot_count) ==
    LET remaining_height == Num(1, 2)
    IN IF subplot_count > 1
       THEN [r \in 1..subplot_count |->
                IF r = 1 THEN Num(1, 2)
                ELSE Div(remaining_height, Int2Val(subplot_count - 1))]
       ELSE <<Num(1, 2)>>

\* the request lists tried: every list of at most MaxReq names, the list of
\* the specification's scenario and the page's list with every box ticked
MaxReq == 3
SpecScenario == <<"sma", "ema", "rsi", "macd">>
AllSelected == <<"sma", "ema", "bollinger", "rsi", "macd", "stoch", "atr", "obv">>
ReqLists == SeqsUpTo(IndicatorNames, MaxReq) \cup {SpecScenario, AllSelected}

\* the Series a chart is built on: none, one and two bars
SampleBar1 == [Open |-> 1, High |-> 2, Low |-> 1, Close |-> 2, Volume |-> 2]
SampleBar2 == [Open |-> 2, High |-> 2, Low |-> 1, Close |-> 1, Volume |-> 1]
ChartSeries == {<<>>, <<SampleBar1>>, <<SampleBar1, SampleBar2>>}

(***************************************************************************)
(* State.                                                                  *)
(*   data  the input Series of the request (a DataFrame of OHLCV bars)     *)
(*   out   the calculator call made on it: the calculator, its parameters, *)
(*         the exception it raised and the series it returned              *)
(*   indicators_arg  the indicators argument of create_technical_chart: a  *)
(*         list, or None                                                   *)
(*   pc    where create_technical_chart stands ("idle": not called)        *)
(*   indicators, subplot_count, heights, current_row, fig  its locals      *)
(*   chart_exc  the exception create_technical_chart raised                *)
(***************************************************************************)
VARIABLES data, out, indicators_arg, pc, indicators, subplot_count, heights,
          current_row, fig, chart_exc

chartVars == <<indicators_arg, pc, indicators, subplot_count, heights, current_row,
               fig, chart_exc>>

(***************************************************************************)
(* The live data streamer (utils/live_data_streamer.py) and the watchlists *)
(* of the session (pages/10_Watchlists.py).                                *)
(*   is_running, current_symbol, current_price, price_history,             *)
(*   subscribers, candlestick_data, timeframe   fields of live_streamer    *)
(*   tasks     the _stream_data tasks created, each with its position      *)
(*   handlers  the ws_handler coroutine of each websocket                  *)
(*   now       the clock, in minutes                                       *)
(*   tick_count  ticks generated so far                                    *)
(*   watchlists, current_watchlist   st.session_state                      *)
(*   returned  the last watchlist function called and what it returned     *)
(***************************************************************************)
VARIABLES is_running, current_symbol, current_price, price_history, subscribers,
          candlestick_data, timeframe, tasks, handlers, now, tick_count,
          watchlists, current_watchlist, returned

streamVars == <<is_running, current_symbol, current_price, price_history, subscribers,
                candlestick_data, timeframe, tasks, handlers, now, tick_count>>
watchVars == <<watchlists, current_watchlist, returned>>
indicatorVars == <<data, out, chartVars>>

vars == <<data, out, indicators_arg, pc, indicators, subplot_count, heights,
          current_row, fig, chart_exc, streamVars, watchVars>>

Sockets == {"ws1", "ws2"}
TaskIds == 1..2

\* a _stream_data task: not created, about to run an iteration (created or
\* asleep), inside the for loop of _notify_subscribers, returned, or ended by
\* an exception
NoTask == [at |-> "none", seen |-> {}, used |-> 0, disconnected |-> {}]

\* LiveDataStreamer.__init__, and no connection yet
StreamerConstructed ==
    /\ is_running = FALSE
    /\ current_symbol = "None"
    /\ current_price = 0
    /\ price_history = <<>>
    /\ subscribers = {}
    /\ candlestick_data = <<>>
    /\ timeframe = "1m"
    /\ tasks = [t \in TaskIds |-> NoTask]
    /\ handlers = [w \in Sockets |-> "none"]
    /\ now = 0
    /\ tick_count = 0

\* session state as the page initialises it
SessionInitialised ==
    /\ watchlists = [n \in {"Default"} |-> <<>>]
    /\ current_watchlist = "Default"
    /\ returned = [call |-> "none", name |-> "none", symbol |-> "none", value |-> "none"]

NoneArg == [is_none |-> TRUE, list |-> <<>>]
ListArg(list) == [is_none |-> FALSE, list |-> list]

NoChart ==
    /\ indicators = <<>>
    /\ subplot_count = 0
    /\ heights = <<>>
    /\ current_row = 0
    /\ fig = NoFig
    /\ chart_exc = "none"

NoCall == [op |-> "none", args |-> <<>>, exc |-> "none", series |-> <<>>]
Call(op, args, result) ==
    [op |-> op, args |-> args, exc |-> result.exc, series |-> result.series]

Init ==
    /\ data \in SeriesSet
    /\ out = NoCall
    /\ indicators_arg = NoneArg
    /\ pc = "idle"
    /\ NoChart
    /\ StreamerConstructed
    /\ SessionInitialised

Idle == out.op = "none"

CallSMA ==
    /\ Idle
    /\ \E window \in Windows :
          out' = Call("sma", <<window>>, Returned(<<sma_series(data, window)>>))
    /\ UNCHANGED <<data, chartVars>>
    /\ UNCHANGED <<streamVars, watchVars>>

CallEMA ==
    /\ Idle
    /\ \E window \in Windows :
          out' = Call("ema", <<window>>, Returned(<<ema_series(data, window)>>))
    /\ UNCHANGED <<data, chartVars>>
    /\ UNCHANGED <<streamVars, watchVars>>

CallBollinger ==
    /\ Idle
    /\ \E window \in Windows, num_std \in NumStds :
          out' = Call("bollinger", <<window, num_std>>, bollinger_bands(data, window, num_std))
    /\ UNCHANGED <<data, chartVars>>
    /\ UNCHANGED <<streamVars, watchVars>>

CallRSI ==
    /\ Idle
    /\ \E window \in Windows : out' = Call("rsi", <<window>>, calculate_rsi(data, window))
    /\ UNCHANGED <<data, chartVars>>
    /\ UNCHANGED <<streamVars, watchVars>>

CallMACD ==
    /\ Idle
    /\ \E fast_period \in Windows, slow_period \in Windows, signal_period \in Smoothings :
          /\ fast_period < slow_period
          /\ out' = Call("macd", <<fast_period, slow_period, signal_period>>,
                         calculate_macd(data, fast_period, slow_period, signal_period))
    /\ UNCHANGED <<data, chartVars>>
    /\ UNCHANGED <<streamVars, watchVars>>

CallStochastic ==
    /\ Idle
    /\ \E k_period \in Windows, d_period \in Smoothings, smooth_k \in Smoothings :
          out' = Call("stoch", <<k_period, d_period, smooth_k>>,
                      calculate_stochastic(data, k_period, d_period, smooth_k))
    /\ UNCHANGED <<data, chartVars>>
    /\ UNCHANGED <<streamVars, watchVars>>

CallATR ==
    /\ Idle
    /\ \E window \in Windows : out' = Call("atr", <<window>>, calculate_atr(data, window))
    /\ UNCHANGED <<data, chartVars>>
    /\ UNCHANGED <<streamVars, watchVars>>

\* an OBV call that stores its result as a column of the input frame
CallOBV_stores_column ==
    /\ Idle
    /\ out' = Call("obv", <<>>, calculate_on_balance_volume(data))
    /\ data' = [i \in 1..Len(data) |->
                   [Open |-> data[i].Open, High |-> data[i].High, Low |-> data[i].Low,
                    Close |-> data[i].Close, Volume |-> data[i].Volume,
                    OBV |-> out'.series[1][i]]]
    /\ UNCHANGED chartVars
    /\ UNCHANGED <<streamVars, watchVars>>

CallOBV ==
    /\ Idle
    /\ out' = Call("obv", <<>>, calculate_on_balance_volume(data))
    /\ UNCHANGED <<data, chartVars>>
    /\ UNCHANGED <<streamVars, watchVars>>

\* the caller drops the result; the Series stays as it was
Return ==
    /\ ~Idle
    /\ out' = NoCall
    /\ UNCHANGED <<data, chartVars>>
    /\ UNCHANGED <<streamVars, watchVars>>

Next ==
    \/ CallSMA
    \/ CallEMA
    \/ CallBollinger
    \/ CallRSI
    \/ CallMACD
    \/ CallStochastic
    \/ CallATR
    \/ CallOBV
    \/ Return

Spec == Init /\ [][Next]_vars

(***************************************************************************)
(* create_technical_chart(data, indicators), block by block.               *)
(***************************************************************************)
ChartInit ==
    /\ data \in ChartSeries
    /\ out = NoCall
    /\ indicators_arg \in {NoneArg} \cup {ListArg(list) : list \in ReqLists}
    /\ pc = "start"
    /\ NoChart
    /\ StreamerConstructed
    /\ SessionInitialised

\* if indicators is None: indicators = ['sma', 'ema', 'bollinger']
DefaultIndicators ==
    /\ pc = "start"
    /\ indicators' = IF indicators_arg.is_none THEN <<"sma", "ema", "bollinger">>
                     ELSE indicators_arg.list
    /\ pc' = "count"
    /\ UNCHANGED <<data, out, indicators_arg, subplot_count, heights, current_row, fig,
                   chart_exc>>
    /\ UNCHANGED <<streamVars, watchVars>>

CountSubplots ==
    /\ pc = "count"
    /\ subplot_count' = count_subplots(indicators)
    /\ heights' = subplot_heights(subplot_count')
    /\ pc' = "make_subplots"
    /\ UNCHANGED <<data, out, indicators_arg, indicators, current_row, fig, chart_exc>>
    /\ UNCHANGED <<streamVars, watchVars>>

MakeSubplots ==
    /\ pc = "make_subplots"
    /\ fig' = make_subplots(subplot_count, heights, <<"Price Chart">>)
    /\ pc' = "price"
    /\ UNCHANGED <<data, out, indicators_arg, indicators, subplot_count, heights,
                   current_row, chart_exc>>
    /\ UNCHANGED <<streamVars, watchVars>>

\* the candlesticks and the volume bars, on row 1; current_row = 1
AddPrice ==
    /\ pc = "price"
    /\ fig' = add_trace(add_trace(fig, "Price", Column(data, "Close"), 1),
                        "Volume", Column(data, "Volume"), 1)
    /\ current_row' = 1
    /\ pc' = "sma"
    /\ UNCHANGED <<data, out, indicators_arg, indicators, subplot_count, heights, chart_exc>>
    /\ UNCHANGED <<streamVars, watchVars>>

AddSMA ==
    /\ pc = "sma"
    /\ fig' = IF In("sma", indicators)
              THEN add_moving_average(add_moving_average(fig, data, SmaShortWindow, 1),
                                      data, SmaLongWindow, 1)
              ELSE fig
    /\ pc' = "ema"
    /\ UNCHANGED <<data, out, indicators_arg, indicators, subplot_count, heights,
                   current_row, chart_exc>>
    /\ UNCHANGED <<streamVars, watchVars>>

AddEMA ==
    /\ pc = "ema"
    /\ fig' = IF In("ema", indicators)
              THEN add_exponential_moving_average(fig, data, EmaWindow, 1)
              ELSE fig
    /\ pc' = "bollinger"
    /\ UNCHANGED <<data, out, indicators_arg, indicators, subplot_count, heights,
                   current_row, chart_exc>>
    /\ UNCHANGED <<streamVars, watchVars>>

AddBollinger ==
    /\ pc = "bollinger"
    /\ fig' = IF In("bollinger", indicators)
              THEN add_bollinger_bands(fig, data, BollingerWindow, BollingerNumStd, 1)
              ELSE fig
    /\ pc' = "rsi"
    /\ UNCHANGED <<data, out, indicators_arg, indicators, subplot_count, heights,
                   current_row, chart_exc>>
    /\ UNCHANGED <<streamVars, watchVars>>

\* a block that forgets to move to the next row
next_row_same(row) == row

\* the row add_rsi has by default
next_row_default(row) == 2

\* current_row += 1
next_row(row) == row + 1

\* one oscillator block: if the name is in the list, current_row += 1, the
\* add_* call on that row, then update_layout(annotations=[label]); an
\* exception of the add_* call leaves create_technical_chart
OscillatorBlock(name, result, label, next) ==
    IF In(name, indicators)
    THEN /\ current_row' = next_row(current_row)
         /\ IF result.exc # "none"
            THEN /\ chart_exc' = result.exc
                 /\ fig' = NoFig
                 /\ pc' = "raised"
            ELSE /\ fig' = update_layout_annotations(result.fig, label,
                                                     annotation_y(current_row', heights))
                 /\ pc' = next
                 /\ UNCHANGED chart_exc
    ELSE /\ pc' = next
         /\ UNCHANGED <<current_row, fig, chart_exc>>

AddRSI ==
    /\ pc = "rsi"
    /\ OscillatorBlock("rsi", add_rsi(fig, data, RsiWindow, next_row(current_row)),
                       "RSI (14)", "macd")
    /\ UNCHANGED <<data, out, indicators_arg, indicators, subplot_count, heights>>
    /\ UNCHANGED <<streamVars, watchVars>>

AddMACD ==
    /\ pc = "macd"
    /\ OscillatorBlock("macd",
                       add_macd(fig, data, MacdFast, MacdSlow, MacdSignal, next_row(current_row)),
                       "MACD", "stoch")
    /\ UNCHANGED <<data, out, indicators_arg, indicators, subplot_count, heights>>
    /\ UNCHANGED <<streamVars, watchVars>>

AddStochastic ==
    /\ pc = "stoch"
    /\ OscillatorBlock("stoch",
                       add_stochastic(fig, data, StochK, StochD, StochSmoothK,
                                      next_row(current_row)),
                       "Stochastic", "atr")
    /\ UNCHANGED <<data, out, indicators_arg, indicators, subplot_count, heights>>
    /\ UNCHANGED <<streamVars, watchVars>>

AddATR ==
    /\ pc = "atr"
    /\ OscillatorBlock("atr", add_atr(fig, data, AtrWindow, next_row(current_row)),
                       "ATR (14)", "obv")
    /\ UNCHANGED <<data, out, indicators_arg, indicators, subplot_count, heights>>
    /\ UNCHANGED <<streamVars, watchVars>>

AddOBV ==
    /\ pc = "obv"
    /\ OscillatorBlock("obv", add_obv(fig, data, next_row(current_row)),
                       "On Balance Volume", "layout")
    /\ UNCHANGED <<data, out, indicators_arg, indicators, subplot_count, heights>>
    /\ UNCHANGED <<streamVars, watchVars>>

\* fig.update_layout(title=...), update_yaxes("Price", row=1),
\* update_xaxes("Date", row=subplot_count); return fig
UpdateLayout ==
    /\ pc = "layout"
    /\ fig' = [update_yaxes(fig, "Price", 1) EXCEPT !.xaxis_title_row = subplot_count]
    /\ pc' = "done"
    /\ UNCHANGED <<data, out, indicators_arg, indicators, subplot_count, heights,
                   current_row, chart_exc>>
    /\ UNCHANGED <<streamVars, watchVars>>

ChartNext ==
    \/ DefaultIndicators
    \/ CountSubplots
    \/ MakeSubplots
    \/ AddPrice
    \/ AddSMA
    \/ AddEMA
    \/ AddBollinger
    \/ AddRSI
    \/ AddMACD
    \/ AddStochastic
    \/ AddATR
    \/ AddOBV
    \/ UpdateLayout

ChartSpec == ChartInit /\ [][ChartNext]_vars

(***************************************************************************)
(* The claims.                                                             *)
(***************************************************************************)
Called == out.op # "none"
Undefined(v) == v.k = "nan"
OutSeries == {out.series[j] : j \in 1..Len(out.series)}

\* C1: for every calculator (SMA, EMA, Bollinger, RSI, MACD, Stochastic, ATR,
\* OBV) and every input series of n >= 1 bars, the call returns and every
\* output series has exactly n entries, one per bar: the entries that cannot
\* be computed are there as undefined values.
C1_Alignment ==
    (Called /\ Len(data) >= 1) =>
        /\ out.exc = "none"
        /\ Len(out.series) >= 1
        /\ \A s \in OutSeries : DOMAIN s = 1..Len(data)

\* a moving average over MaxLen bars whose first entry is undefined and whose
\* last is defined
C1_Witness ==
    /\ out.op = "sma"
    /\ Len(data) = MaxLen
    /\ Len(out.series[1]) = MaxLen
    /\ Undefined(out.series[1][1])
    /\ IsNum(out.series[1][MaxLen])

\* C2: any indicator over a zero-length series returns a zero-length (or
\* fully undefined) output and does not raise.
C2_EmptyNeverRaises ==
    (Called /\ Len(data) = 0) =>
        /\ out.exc = "none"
        /\ \A s \in OutSeries : \A i \in DOMAIN s : Undefined(s[i])

\* C3: OBV[0] = 0 and, for every later bar, OBV rises by the bar's volume
\* when the close rose, falls by it when the close fell, and stays when the
\* close did not change.
C3_ObvRecurrence ==
    (out.op = "obv" /\ out.exc = "none") =>
        LET obv == out.series[1]
        IN /\ Len(obv) = Len(data)
           /\ obv[1] = Zero
           /\ \A i \in 2..Len(data) :
                 /\ data[i].Close > data[i - 1].Close =>
                       obv[i] = Add(obv[i - 1], Int2Val(data[i].Volume))
                 /\ data[i].Close < data[i - 1].Close =>
                       obv[i] = Sub(obv[i - 1], Int2Val(data[i].Volume))
                 /\ data[i].Close = data[i - 1].Close => obv[i] = obv[i - 1]

\* an OBV over a rise followed by a fall, with different volumes
C3_Witness ==
    /\ out.op = "obv"
    /\ Len(data) = 3
    /\ data[2].Close > data[1].Close
    /\ data[3].Close < data[2].Close
    /\ data[2].Volume # data[3].Volume
    /\ data[1].Volume # data[2].Volume
    /\ out.series[1][3] = Int2Val(data[2].Volume - data[3].Volume)

OscillatorsIn(list) == {k \in Oscillators : In(k, list)}
FigBuilt == pc \in {"price", "sma", "ema", "bollinger", "rsi", "macd", "stoch", "atr",
                    "obv", "layout", "done"}

\* C4: the figure has exactly 1 + m panels, m the number of oscillator kinds
\* in the requested list; overlays add none.  [sma, ema, rsi, macd] gives 3
\* panels and [sma] gives 1.
C4_PanelCount ==
    /\ FigBuilt => fig.rows = 1 + Cardinality(OscillatorsIn(indicators))
    /\ (FigBuilt /\ indicators_arg = ListArg(SpecScenario)) => fig.rows = 3
    /\ (FigBuilt /\ indicators_arg = ListArg(<<"sma">>)) => fig.rows = 1

\* the finished chart of the scenario [sma, ema, rsi, macd], with 3 panels
C4_Witness ==
    /\ pc = "done"
    /\ indicators = SpecScenario
    /\ Len(data) >= 1
    /\ fig.rows = 3

\* the trace that stands for an oscillator, and the row it was put on
MainTrace(k) ==
    CASE k = "rsi" -> "RSI"
      [] k = "macd" -> "MACD"
      [] k = "stoch" -> "%K"
      [] k = "atr" -> "ATR"
      [] k = "obv" -> "OBV"
RowsOf(k) == {fig.traces[i].row : i \in {j \in 1..Len(fig.traces) : fig.traces[j].name = MainTrace(k)}}
FirstIndex(k, list) == CHOOSE i \in 1..Len(list) : list[i] = k /\ \A j \in 1..(i - 1) : list[j] # k
\* the place of a kind in the order of the blocks of create_technical_chart
BlockRank(k) ==
    CASE k = "rsi" -> 1
      [] k = "macd" -> 2
      [] k = "stoch" -> 3
      [] k = "atr" -> 4
      [] k = "obv" -> 5

\* C5 (as claimed): oscillator panels follow the order of the request: if A
\* comes before B in the list, A's panel is above B's (in the finished chart
\* of a series with bars).
C5_RequestOrder ==
    (pc = "done" /\ Len(data) >= 1) =>
        \A a \in OscillatorsIn(indicators), b \in OscillatorsIn(indicators) :
            FirstIndex(a, indicators) < FirstIndex(b, indicators) =>
                \A ra \in RowsOf(a), rb \in RowsOf(b) : ra < rb

\* C5 (amended): oscillator panels follow the fixed order rsi, macd, stoch,
\* atr, obv, whatever the order of the request: each requested oscillator is
\* on one panel, and A's panel is above B's when A comes before B in that
\* fixed order.
C5_FixedOrder ==
    pc = "done" =>
        /\ \A a \in OscillatorsIn(indicators) : Cardinality(RowsOf(a)) = 1
        /\ \A a \in OscillatorsIn(indicators), b \in OscillatorsIn(indicators) :
              BlockRank(a) < BlockRank(b) =>
                  \A ra \in RowsOf(a), rb \in RowsOf(b) : ra < rb

\* the finished chart of [macd, rsi]: RSI on row 2, MACD on row 3
C5_Witness ==
    /\ pc = "done"
    /\ indicators = <<"macd", "rsi">>
    /\ RowsOf("rsi") = {2}
    /\ RowsOf("macd") = {3}

HeightsComputed == pc \notin {"idle", "start", "count"}

\* C6: the height weights sum to 1.0 and panel 0 weighs no less than the
\* other panels together: 0.5 for panel 0 and 0.5 split evenly with at least
\* one oscillator panel, the full height 1.0 for panel 0 with none.
C6_HeightWeights ==
    HeightsComputed =>
        LET m == Cardinality(OscillatorsIn(indicators))
        IN /\ Len(heights) = 1 + m
           /\ SumRange(heights, 1, Len(heights)) = One
           /\ Leq(SumRange(heights, 2, Len(heights)), heights[1])
           /\ m >= 1 => /\ heights[1] = Num(1, 2)
                        /\ \A r \in 2..(1 + m) : heights[r] = Num(1, 2 * m)
           /\ m = 0 => heights[1] = One

\* C7: on an empty series create_technical_chart returns a figure and does
\* not raise, whatever the requested indicators.
C7_EmptyChartNeverRaises ==
    Len(data) = 0 => (pc # "raised" /\ chart_exc = "none")

\* C8: every defined RSI value lies in [0, 100].
C8_RsiBounded ==
    out.op = "rsi" =>
        \A i \in 1..Len(out.series[1]) :
            LET v == out.series[1][i]
            IN Undefined(v) \/ (IsNum(v) /\ Leq(Zero, v) /\ Leq(v, Hundred))

\* an RSI strictly between 0 and 100: gains and losses in one window
C8_Witness ==
    /\ out.op = "rsi"
    /\ \E i \in 1..Len(out.series[1]) :
          Lt(Zero, out.series[1][i]) /\ Lt(out.series[1][i], Hundred)

\* C9: whenever the average loss over a full trailing window (window price
\* changes) is 0, RSI is 100 there, whatever the average gain.
C9_ZeroLossIsHundred ==
    out.op = "rsi" =>
        LET window == out.args[1]
            avg_loss == rolling_mean(rsi_loss(data), window)
        IN \A i \in (window + 1)..Len(data) :
               avg_loss[i] = Zero => out.series[1][i] = Hundred

SurdDefined(x) == x.k = "num"
\* x <= y for x = (a + b*sqrt(c))/d and y likewise, over the same c when
\* both have a square root: p*sqrt(c) <= q with p, q integers
SurdLeq(x, y) ==
    LET c == IF x.b # 0 THEN x.c ELSE y.c
        p == x.b * y.d - y.b * x.d
        q == y.a * x.d - x.a * y.d
    IN IF p >= 0 /\ q >= 0 THEN p * p * c <= q * q
       ELSE IF p >= 0 THEN p * p * c = 0 /\ q = 0
       ELSE IF q >= 0 THEN TRUE
       ELSE p * p * c >= q * q
\* w*w times the window's sum of squared deviations from its mean
RECURSIVE ScaledSqDev(_, _, _, _)
ScaledSqDev(w, S, lo, hi) ==
    IF lo > hi THEN 0
    ELSE (w * data[hi].Close - S) * (w * data[hi].Close - S) + ScaledSqDev(w, S, lo, hi - 1)

\* C10: wherever the Bollinger bands are defined (num_std k >= 0),
\* lower <= middle <= upper; middle is the window's mean and the bands lie
\* k sample standard deviations of the window away from it.
C10_BollingerOrdering ==
    out.op = "bollinger" =>
        LET w == out.args[1]
            k == out.args[2]
            ma == out.series[1]
            upper == out.series[2]
            lower == out.series[3]
        IN \A i \in 1..Len(data) :
              (SurdDefined(upper[i]) /\ SurdDefined(lower[i])) =>
                  LET S == IntSum(data, "Close", i - w + 1, i)
                  IN /\ SurdDefined(ma[i])
                     /\ SurdLeq(lower[i], ma[i])
                     /\ SurdLeq(ma[i], upper[i])
                     /\ ma[i].b = 0 /\ ma[i].a * w = S * ma[i].d
                     /\ \A band \in {upper[i], lower[i]} :
                           /\ band.a * ma[i].d = ma[i].a * band.d
                           /\ band.b * band.b * band.c * w * w * (w - 1)
                                 = k * k * band.d * band.d * ScaledSqDev(w, S, i - w + 1, i)

\* bands strictly apart: lower < middle < upper
C10_Witness ==
    /\ out.op = "bollinger"
    /\ out.args[2] = 2
    /\ \E i \in 1..Len(data) :
          /\ SurdDefined(out.series[2][i])
          /\ ~SurdLeq(out.series[1][i], out.series[3][i])
          /\ ~SurdLeq(out.series[2][i], out.series[1][i])

(***************************************************************************)
(* The exponential mean written out as a weighted sum, for comparison with *)
(* the recursive form:                                                     *)
(*   y[i] = (1-a)^(i-1) * x[1] + SUM j = 2..i : a * (1-a)^(i-j) * x[j]     *)
(***************************************************************************)
RECURSIVE Pow(_, _)
Pow(v, n) == IF n = 0 THEN One ELSE Mul(v, Pow(v, n - 1))

RECURSIVE WeightedTail(_, _, _, _)
WeightedTail(x, a, i, j) ==
    IF j < 2 THEN Zero
    ELSE Add(Mul(Mul(a, Pow(Sub(One, a), i - j)), x[j]), WeightedTail(x, a, i, j - 1))

EmaWeighted(x, a, i) == Add(Mul(Pow(Sub(One, a), i - 1), x[1]), WeightedTail(x, a, i, i))

Alpha(span) == Num(2, span + 1)

\* C11: after calculate_macd, at every index the MACD line is the fast EMA of
\* Close minus the slow EMA of Close, the signal line is the EMA of the MACD
\* line with the signal span, and the histogram is exactly the MACD line minus
\* the signal line.
C11_MacdHistogram ==
    out.op = "macd" =>
        LET close == Column(data, "Close")
            macd_line == out.series[1]
            signal_line == out.series[2]
            histogram == out.series[3]
        IN /\ out.exc = "none"
           /\ Len(macd_line) = Len(data)
           /\ Len(signal_line) = Len(data)
           /\ Len(histogram) = Len(data)
           /\ \A i \in 1..Len(data) :
                 /\ macd_line[i] = Sub(EmaWeighted(close, Alpha(out.args[1]), i),
                                       EmaWeighted(close, Alpha(out.args[2]), i))
                 /\ signal_line[i] = EmaWeighted(macd_line, Alpha(out.args[3]), i)
                 /\ histogram[i] = Sub(macd_line[i], signal_line[i])

\* a MACD call whose histogram is non-zero somewhere
C11_Witness ==
    /\ out.op = "macd"
    /\ out.exc = "none"
    /\ \E i \in 1..Len(data) : IsNum(out.series[3][i]) /\ out.series[3][i] # Zero

(***************************************************************************)
(* Stochastic oscillator: the window's highest High and lowest Low, taken  *)
(* from the bars themselves.                                               *)
(***************************************************************************)
HHigh(k_period, i) ==
    CHOOSE m \in {data[j].High : j \in (i - k_period + 1)..i} :
        \A j \in (i - k_period + 1)..i : data[j].High <= m
LLow(k_period, i) ==
    CHOOSE m \in {data[j].Low : j \in (i - k_period + 1)..i} :
        \A j \in (i - k_period + 1)..i : m <= data[j].Low
\* the k_period window ending at i exists and its range is not flat
RangeOpen(k_period, i) == i >= k_period /\ HHigh(k_period, i) # LLow(k_period, i)

C13_EmaRecurrence ==
    out.op = "ema" =>
        LET ema == out.series[1]
            close == Column(data, "Close")
            a == Num(2, out.args[1] + 1)
        IN /\ out.exc = "none"
           /\ Len(ema) = Len(data)
           /\ \A i \in 1..Len(data) :
                 /\ IsNum(ema[i])
                 /\ i = 1 => ema[i] = close[1]
                 /\ i > 1 => ema[i] = Add(Mul(a, close[i]), Mul(Sub(One, a), ema[i - 1]))

\* an EMA with a < 1 over closes that move: the second value is neither the
\* previous EMA nor the new close
C13_Witness ==
    /\ out.op = "ema"
    /\ out.args[1] >= 2
    /\ Len(data) >= 2
    /\ out.series[1][1] = Int2Val(data[1].Close)
    /\ out.series[1][2] # out.series[1][1]
    /\ out.series[1][2] # Int2Val(data[2].Close)

\* C14: the SMA drawn by add_moving_average is undefined at every index
\* i < window - 1; at every index i >= window - 1 it is the arithmetic mean of
\* Close[i-window+1 .. i] (window * SMA[i] is the sum of those closes); on a
\* series whose closes all equal c it is exactly c wherever it is defined.
C14_SmaWindow ==
    out.op = "sma" =>
        LET ma == out.series[1]
            window == out.args[1]
        IN /\ out.exc = "none"
           /\ Len(ma) = Len(data)
           /\ \A i \in 1..Len(data) :
                 /\ i < window => Undefined(ma[i])
                 /\ i >= window =>
                       /\ IsNum(ma[i])
                       /\ ma[i].n * window =
                             ma[i].d * IntSum(data, "Close", i - window + 1, i)
                       /\ (\A j \in 1..Len(data) : data[j].Close = data[1].Close)
                             => ma[i] = Int2Val(data[1].Close)

\* a window of two or more bars over closes that move: undefined before the
\* window fills, then a mean that differs from the last close
C14_Witness ==
    /\ out.op = "sma"
    /\ out.args[1] >= 2
    /\ Len(data) > out.args[1]
    /\ Undefined(out.series[1][out.args[1] - 1])
    /\ IsNum(out.series[1][out.args[1]])
    /\ out.series[1][out.args[1]] # Int2Val(data[out.args[1]].Close)

(***************************************************************************)
(* The calculators called with any integer parameter.  Nothing in the      *)
(* module validates a window or a span: the only checks are the ones       *)
(* pandas makes when the rolling or exponential window is built inside the *)
(* calculator.                                                             *)
(***************************************************************************)
\* Series.rolling(window=window): "window must be an integer 0 or greater";
\* a window of 0 is accepted and every mean over it is undefined
rolling_validate(window) == IF window < 0 THEN "ValueError" ELSE "none"

\* Series.ewm(span=span): "span must satisfy: span >= 1"
ewm_validate(span) == IF span < 1 THEN "ValueError" ELSE "none"

ParamWindows == (-1)..MaxWindow

ParamSMA ==
    /\ Idle
    /\ \E window \in ParamWindows :
          out' = Call("sma", <<window>>,
                      IF rolling_validate(window) # "none"
                      THEN Raised(rolling_validate(window))
                      ELSE Returned(<<sma_series(data, window)>>))
    /\ UNCHANGED <<data, chartVars>>
    /\ UNCHANGED <<streamVars, watchVars>>

ParamEMA ==
    /\ Idle
    /\ \E window \in ParamWindows :
          out' = Call("ema", <<window>>,
                      IF ewm_validate(window) # "none"
                      THEN Raised(ewm_validate(window))
                      ELSE Returned(<<ema_series(data, window)>>))
    /\ UNCHANGED <<data, chartVars>>
    /\ UNCHANGED <<streamVars, watchVars>>

ParamRSI ==
    /\ Idle
    /\ \E window \in ParamWindows :
          out' = Call("rsi", <<window>>,
                      IF rolling_validate(window) # "none"
                      THEN Raised(rolling_validate(window))
                      ELSE calculate_rsi(data, window))
    /\ UNCHANGED <<data, chartVars>>
    /\ UNCHANGED <<streamVars, watchVars>>

ParamATR ==
    /\ Idle
    /\ \E window \in ParamWindows :
          out' = Call("atr", <<window>>,
                      IF rolling_validate(window) # "none"
                      THEN Raised(rolling_validate(window))
                      ELSE calculate_atr(data, window))
    /\ UNCHANGED <<data, chartVars>>
    /\ UNCHANGED <<streamVars, watchVars>>

ParamNext ==
    \/ ParamSMA
    \/ ParamEMA
    \/ ParamRSI
    \/ ParamATR
    \/ Return

ParamSpec == Init /\ [][ParamNext]_vars

InvalidArgs == \E j \in 1..Len(out.args) : out.args[j] <= 0

\* C15: a call configured with a zero or negative window, period or span is
\* rejected with an error: it never comes back with a computed series.
C15_InvalidParameterRejected ==
    (Called /\ InvalidArgs) => out.exc # "none"

(***************************************************************************)
(* Calculators and the chart builder over the same input frame: stand-alone*)
(* calculator calls (no chart under construction) and runs of              *)
(* create_technical_chart.                                                 *)
(***************************************************************************)
FrameInit == Init \/ ChartInit

CalculatorStep == pc = "idle" /\ Next

FrameNext == CalculatorStep \/ ChartNext

FrameSpec == FrameInit /\ [][FrameNext]_vars

\* C16: no step of any calculator (calculate_*, the add_* computations) or of
\* create_technical_chart changes the input bars: across every step the input
\* series keeps its values, order and length.
C16_InputNeverMutated == [][data' = data]_vars

\* the OBV calculator has run over two or more bars and returned a series that
\* is not a copy of any input column
C16_Witness ==
    /\ out.op = "obv"
    /\ out.exc = "none"
    /\ Len(data) >= 2
    /\ \A column \in {"Open", "High", "Low", "Close", "Volume"} :
          out.series[1] # Column(data, column)

\* C17: the first `window` values of calculate_rsi(data, window) are
\* undefined: every index 0 .. window-1 (positions 1 .. window) holds NaN.
C17_RsiFirstWindowUndefined ==
    out.op = "rsi" =>
        \A i \in 1..Len(data) : i <= out.args[1] => Undefined(out.series[1][i])

(***************************************************************************)
(* Series shorter than an indicator's window.                              *)
(***************************************************************************)
\* the series has bars, but fewer than the window
ShorterThan(window) == Len(data) >= 1 /\ Len(data) < window

TracesNamed(names) == {i \in 1..Len(fig.traces) : fig.traces[i].name \in names}

\* every trace with one of these names has one value for each bar, all undefined
AllUndefined(names) ==
    \A t \in TracesNamed(names) :
        /\ Len(fig.traces[t].y) = Len(data)
        /\ \A i \in 1..Len(data) : Undefined(fig.traces[t].y[i])

\* the panel a requested oscillator gets from the request list alone, whatever
\* the length of the series
PanelOf(k, list) ==
    1 + Cardinality({j \in OscillatorsIn(list) : BlockRank(j) <= BlockRank(k)})

\* C18: in the finished chart of a series with n >= 1 bars, an indicator
\* whose window exceeds n has a trace that is undefined at every index; its
\* panel is allocated all the same and the trace is on it: the panel count is
\* 1 + the number of requested oscillators and each requested oscillator is on
\* the panel the request list alone gives it, as for a series of any length.
C18_ShortSeriesKeepsPanels ==
    (pc = "done" /\ Len(data) >= 1) =>
        /\ fig.rows = 1 + Cardinality(OscillatorsIn(indicators))
        /\ \A k \in OscillatorsIn(indicators) : RowsOf(k) = {PanelOf(k, indicators)}
        /\ In("sma", indicators) =>
              \E t \in TracesNamed({"MA"}) : fig.traces[t].row = 1
        /\ In("bollinger", indicators) =>
              \A name \in {"MA", "Upper Band", "Lower Band"} :
                  \E t \in TracesNamed({name}) : fig.traces[t].row = 1
        /\ In("stoch", indicators) =>
              \E t \in TracesNamed({"%D"}) : fig.traces[t].row = PanelOf("stoch", indicators)
        /\ (ShorterThan(SmaShortWindow) /\ ShorterThan(SmaLongWindow)
                /\ ShorterThan(BollingerWindow)) =>
              AllUndefined({"MA", "Upper Band", "Lower Band"})
        /\ ShorterThan(RsiWindow) => AllUndefined({"RSI"})
        /\ ShorterThan(StochK) => AllUndefined({"%K", "%D"})
        /\ ShorterThan(AtrWindow) => AllUndefined({"ATR"})

\* the finished chart of two bars with every indicator selected: six panels,
\* the ATR trace on panel 5 without a single value
C18_Witness ==
    /\ pc = "done"
    /\ Len(data) = 2
    /\ indicators = AllSelected
    /\ ShorterThan(AtrWindow)
    /\ fig.rows = 6
    /\ RowsOf("atr") = {5}
    /\ TracesNamed({"ATR"}) # {}
    /\ AllUndefined({"ATR", "RSI", "%K", "MA"})

\* the k_period window ending at i exists and its highest High equals its
\* lowest Low
FlatRange(k_period, i) == i >= k_period /\ HHigh(k_period, i) = LLow(k_period, i)

\* C19: calculate_stochastic raises nothing, and at every index whose
\* trailing k_period window is flat (HHigh = LLow) the fast %K is NaN, neither
\* a number nor an infinity; the returned %K, a mean over a window holding
\* that NaN, is NaN there too.
C19_FlatRangeIsNaN ==
    out.op = "stoch" =>
        /\ out.exc = "none"
        /\ \A i \in 1..Len(data) :
              FlatRange(out.args[1], i) =>
                  /\ IsNaN(stochastic_fast_k(data, out.args[1])[i])
                  /\ IsNaN(out.series[1][i])

\* a stochastic call over a series with a flat window and, later, an open one
\* that gives a %K value
C19_Witness ==
    /\ out.op = "stoch"
    /\ out.exc = "none"
    /\ \E i \in 1..Len(data), j \in 1..Len(data) :
          /\ FlatRange(out.args[1], i)
          /\ IsNaN(out.series[1][i])
          /\ i < j
          /\ IsNum(out.series[1][j])

(***************************************************************************)
(* The true range of bar i, taken from the bars themselves.                *)
(***************************************************************************)
IntMax(S) == CHOOSE m \in S : \A v \in S : v <= m

TrueRangeOf(i) ==
    IF i = 1 THEN data[1].High - data[1].Low
    ELSE IntMax({data[i].High - data[i].Low,
                 Abs(data[i].High - data[i - 1].Close),
                 Abs(data[i].Low - data[i - 1].Close)})

RECURSIVE TrueRangeSum(_, _)
TrueRangeSum(lo, hi) == IF lo > hi THEN 0 ELSE TrueRangeOf(hi) + TrueRangeSum(lo, hi - 1)

\* C20: the true range is High[0] - Low[0] at the first bar and
\* max(High[i]-Low[i], |High[i]-Close[i-1]|, |Low[i]-Close[i-1]|) at i >= 1;
\* ATR(window)[i] is undefined for i < window - 1 and is the arithmetic mean
\* of the true range over the trailing window from there on
\* (window * ATR[i] is the sum of the window's true ranges).
C20_AtrIsMeanTrueRange ==
    out.op = "atr" =>
        LET atr == out.series[1]
            window == out.args[1]
        IN /\ out.exc = "none"
           /\ Len(atr) = Len(data)
           /\ \A i \in 1..Len(data) : true_range(data)[i] = Int2Val(TrueRangeOf(i))
           /\ \A i \in 1..Len(data) :
                 /\ i < window => Undefined(atr[i])
                 /\ i >= window =>
                       /\ IsNum(atr[i])
                       /\ atr[i].n * window = atr[i].d * TrueRangeSum(i - window + 1, i)

\* an ATR over two bars where the gap from the previous close, not the bar's
\* own range, sets the true range
C20_Witness ==
    /\ out.op = "atr"
    /\ out.args[1] = 2
    /\ Len(data) >= 2
    /\ TrueRangeOf(2) > data[2].High - data[2].Low
    /\ Undefined(out.series[1][1])
    /\ IsNum(out.series[1][2])
    /\ out.series[1][2] = Num(TrueRangeOf(1) + TrueRangeOf(2), 2)

(***************************************************************************)
(* Panel placement of the traces.  Panel 0 is row 1 of the figure.         *)
(***************************************************************************)
PriceTraceNames == {"Price", "Volume"}
OverlayTraceNames == {"MA", "EMA", "Upper Band", "Lower Band"}
OscillatorTraceNames ==
    {"RSI", "Overbought", "Oversold", "Middle", "MACD", "Signal", "Histogram",
     "%K", "%D", "ATR", "OBV", "OBV EMA (20)"}

\* C21: in the figure create_technical_chart is building or has built, the
\* candlesticks, the volume bars and every overlay trace are on panel 0
\* (row 1) and every oscillator trace, reference lines included, is on another
\* panel; every trace is one of these; the finished figure has the price and
\* volume traces and the traces of each requested overlay.
C21_PanelPlacement ==
    /\ \A t \in 1..Len(fig.traces) :
          /\ fig.traces[t].name \in
                PriceTraceNames \cup OverlayTraceNames \cup OscillatorTraceNames
          /\ fig.traces[t].name \in PriceTraceNames \cup OverlayTraceNames
                => fig.traces[t].row = 1
          /\ fig.traces[t].name \in OscillatorTraceNames => fig.traces[t].row > 1
    /\ pc = "done" =>
          /\ \A name \in PriceTraceNames : TracesNamed({name}) # {}
          /\ In("sma", indicators) => TracesNamed({"MA"}) # {}
          /\ In("ema", indicators) => TracesNamed({"EMA"}) # {}
          /\ In("bollinger", indicators) => TracesNamed({"Upper Band"}) # {}
          /\ \A k \in OscillatorsIn(indicators) : TracesNamed({MainTrace(k)}) # {}

\* the finished chart with every indicator selected: overlays on row 1, the
\* RSI and its reference lines on row 2, the OBV on row 6
C21_Witness ==
    /\ pc = "done"
    /\ indicators = AllSelected
    /\ \E t \in TracesNamed({"EMA"}) : fig.traces[t].row = 1
    /\ \E t \in TracesNamed({"Upper Band"}) : fig.traces[t].row = 1
    /\ \E t \in TracesNamed({"Overbought"}) : fig.traces[t].row = 2
    /\ \E t \in TracesNamed({"OBV EMA (20)"}) : fig.traces[t].row = 6

(***************************************************************************)
(* The Technical Indicators page: main() fetches the bars, stops with a    *)
(* warning when there are none, and otherwise builds the list of selected  *)
(* indicators and calls create_technical_chart.                            *)
(***************************************************************************)
\* what yfinance hands back: bars (possibly none), or an exception
ProviderResults ==
    {[exc |-> "none", bars |-> b] : b \in ChartSeries}
        \cup {[exc |-> "Exception", bars |-> <<>>]}

\* get_stock_data: the bars, or an empty DataFrame when anything was raised
get_stock_data(result) == IF result.exc # "none" THEN <<>> ELSE result.bars

\* selected_indicators: the ticked names, appended in the order of the page
selected_indicators(ticked) == SelectSeq(AllSelected, LAMBDA k : k \in ticked)

PageInit ==
    /\ data = <<>>
    /\ out = NoCall
    /\ indicators_arg = NoneArg
    /\ pc = "page_fetch"
    /\ NoChart
    /\ StreamerConstructed
    /\ SessionInitialised

\* stock_data = get_stock_data(symbol=stock_symbol, period=period, interval=interval)
PageFetch ==
    /\ pc = "page_fetch"
    /\ \E result \in ProviderResults : data' = get_stock_data(result)
    /\ pc' = "page_check"
    /\ UNCHANGED <<out, indicators_arg, indicators, subplot_count, heights, current_row,
                   fig, chart_exc>>
    /\ UNCHANGED <<streamVars, watchVars>>

\* a page that goes on to the chart whatever it fetched
PageCheck_unguarded ==
    /\ pc = "page_check"
    /\ \E ticked \in SUBSET (Overlays \cup Oscillators) :
          indicators_arg' = ListArg(selected_indicators(ticked))
    /\ pc' = "start"
    /\ UNCHANGED <<data, out, indicators, subplot_count, heights, current_row, fig,
                   chart_exc>>
    /\ UNCHANGED <<streamVars, watchVars>>

\* if stock_data.empty: st.warning(...); return.  Otherwise the list is built
\* and create_technical_chart(stock_data, indicators=selected_indicators) is
\* entered
PageCheck ==
    /\ pc = "page_check"
    /\ IF Len(data) = 0
       THEN /\ pc' = "no_data"
            /\ UNCHANGED indicators_arg
       ELSE /\ \E ticked \in SUBSET (Overlays \cup Oscillators) :
                  indicators_arg' = ListArg(selected_indicators(ticked))
            /\ pc' = "start"
    /\ UNCHANGED <<data, out, indicators, subplot_count, heights, current_row, fig,
                   chart_exc>>
    /\ UNCHANGED <<streamVars, watchVars>>

PageNext ==
    \/ PageFetch
    \/ PageCheck
    \/ ChartNext

PageSpec == PageInit /\ [][PageNext]_vars

\* the positions inside create_technical_chart
ChartPositions ==
    {"start", "count", "make_subplots", "price", "sma", "ema", "bollinger", "rsi",
     "macd", "stoch", "atr", "obv", "layout", "done", "raised"}

\* C22: once the fetch has returned zero bars, the page is at its check or at
\* the no-data warning: create_technical_chart is never entered, no figure
\* exists, nothing was computed and no calculator was called.
C22_NoBarsShortCircuits ==
    (pc # "page_fetch" /\ Len(data) = 0) =>
        /\ pc \in {"page_check", "no_data"}
        /\ pc \notin ChartPositions
        /\ NoChart
        /\ out = NoCall

\* the page stopped at the warning after a fetch without bars
C22_Witness ==
    /\ pc = "no_data"
    /\ Len(data) = 0
    /\ fig = NoFig

\* C23: the running row counter never exceeds the number of panels; in the
\* finished chart the rows 2..subplot_count are exactly the rows given to
\* oscillators, each of them to exactly one requested kind, whatever the list
\* repeats or names that is not an indicator.
C23_RowsMatchPanels ==
    /\ HeightsComputed => current_row <= subplot_count
    /\ FigBuilt => current_row <= fig.rows
    /\ pc = "done" =>
          /\ current_row = subplot_count
          /\ fig.rows = subplot_count
          /\ UNION {RowsOf(k) : k \in OscillatorsIn(indicators)} = 2..subplot_count
          /\ \A r \in 2..subplot_count :
                Cardinality({k \in OscillatorsIn(indicators) : r \in RowsOf(k)}) = 1
          /\ \A t \in 1..Len(fig.traces) : fig.traces[t].row \in 1..subplot_count

\* a finished chart for a list that repeats a kind and names an unknown one
C23_Witness ==
    /\ pc = "done"
    /\ \E i, j \in 1..Len(indicators) : i # j /\ indicators[i] = indicators[j]
                                            /\ indicators[i] \in Oscillators
    /\ In("vwap", indicators)
    /\ subplot_count = 2
    /\ current_row = 2

\* the label create_technical_chart writes for an oscillator panel
PanelLabel(k) ==
    CASE k = "rsi" -> "RSI (14)"
      [] k = "macd" -> "MACD"
      [] k = "stoch" -> "Stochastic"
      [] k = "atr" -> "ATR (14)"
      [] k = "obv" -> "On Balance Volume"

AnnotationTexts == {fig.annotations[i].text : i \in 1..Len(fig.annotations)}

\* C24: the finished figure carries the label annotation of every oscillator
\* panel it built.
C24_LabelForEveryPanel ==
    pc = "done" =>
        \A k \in OscillatorsIn(indicators) : PanelLabel(k) \in AnnotationTexts

(***************************************************************************)
(* LiveDataStreamer and ws_handler.                                        *)
(*                                                                         *)
(* The event loop runs one coroutine at a time and switches only at an     *)
(* await that suspends: each action below is the code between two such     *)
(* awaits.  The program keeps the last 1000 ticks and the last 100         *)
(* candles; HistoryLimit and CandleLimit stand for those two numbers.      *)
(***************************************************************************)
HistoryLimit == 2
CandleLimit == 2
MaxTicks == 3

Symbols == {"RELIANCE.NS", "TCS.NS"}
Timeframes == {"1m", "5m"}
Instants == 0..2
TickVolumes == {1}

\* the length of a candle, in minutes
FrameMinutes(tf) ==
    CASE tf = "1m" -> 1
      [] tf = "5m" -> 5
      [] tf = "15m" -> 15
      [] tf = "30m" -> 30
      [] tf = "60m" -> 60
      [] tf = "1d" -> 1440
      [] OTHER -> 1

\* current_candle_time: the clock cut down to the start of its candle
current_candle_time(tf, clock) == (clock \div FrameMinutes(tf)) * FrameMinutes(tf)

\* the last n entries of a list: list[-n:], DataFrame.tail(n)
LastN(list, n) ==
    IF Len(list) <= n THEN list ELSE SubSeq(list, Len(list) - n + 1, Len(list))

\* the shapes a generated candle can have: high = open + |..|, low = open - |..|,
\* close = uniform(low, high)
CandleShapes(price) ==
    IF price = 0 THEN {[Open |-> 0, High |-> 0, Low |-> 0, Close |-> 0]}
    ELSE {c \in [Open : Prices, High : Prices, Low : Prices, Close : Prices] :
             c.Low <= c.Open /\ c.Open <= c.High /\ c.Low <= c.Close /\ c.Close <= c.High}

\* _initialize_candlestick_data: candles at now - i frames, i = 100 .. 1,
\* oldest first (here one generated shape and volume for all of them)
initialize_candlestick_data(tf, clock, shape, volume) ==
    [i \in 1..CandleLimit |->
        [Time |-> clock - (CandleLimit + 1 - i) * FrameMinutes(tf),
         Open |-> shape.Open, High |-> shape.High, Low |-> shape.Low,
         Close |-> shape.Close, Volume |-> volume]]

\* a candle that forgets the tick's price when it is not a new extreme
update_candle_keep_close(candle, tick) ==
    [candle EXCEPT !.High = IF tick.price > @ THEN tick.price ELSE @,
                   !.Low = IF tick.price < @ THEN tick.price ELSE @,
                   !.Volume = @ + tick.volume]

\* the existing candle after a tick (lines 176-187)
update_candle(candle, tick) ==
    [candle EXCEPT !.High = IF tick.price > @ THEN tick.price ELSE @,
                   !.Low = IF tick.price < @ THEN tick.price ELSE @,
                   !.Close = tick.price,
                   !.Volume = @ + tick.volume]

\* a history that is never cut
append_tick_unbounded(history, tick) == Append(history, tick)

\* price_history.append(tick_data), cut to the last 1000 ticks
append_tick(history, tick) == LastN(Append(history, tick), HistoryLimit)

\* _update_candlestick_data
update_candlestick_data(candles, tf, clock, tick) ==
    LET t == current_candle_time(tf, clock)
        found == {i \in 1..Len(candles) : candles[i].Time = t}
    IN IF found # {}
       THEN LET candle_idx == CHOOSE i \in found : \A j \in found : i <= j
            IN [candles EXCEPT ![candle_idx] = update_candle(@, tick)]
       ELSE LastN(Append(candles,
                         [Time |-> t, Open |-> tick.price, High |-> tick.price,
                          Low |-> tick.price, Close |-> tick.price,
                          Volume |-> tick.volume]),
                  CandleLimit)

\* the connection of a websocket is closed
ConnectionClosed(w) == handlers[w] \in {"closing", "done", "failed"}

FreeTasks == {t \in TaskIds : tasks[t].at = "none"}

\* start_streaming(symbol): no initial price is passed by ws_handler, so the
\* price is drawn (price); the candles are generated (shape); a new
\* _stream_data task is created
start_streaming(symbol, price, shape) ==
    /\ FreeTasks # {}
    /\ is_running' = TRUE
    /\ current_symbol' = symbol
    /\ current_price' = price
    /\ shape \in CandleShapes(price)
    /\ \E volume \in TickVolumes :
          candlestick_data' = initialize_candlestick_data(timeframe, now, shape, volume)
    /\ price_history' = <<>>
    /\ LET t == CHOOSE t \in FreeTasks : \A u \in FreeTasks : t <= u
       IN tasks' = [tasks EXCEPT ![t] = [NoTask EXCEPT !.at = "ready"]]

\* ws_handler is entered for a new connection: register, then wait for a
\* message
Connect(w) ==
    /\ handlers[w] = "none"
    /\ handlers' = [handlers EXCEPT ![w] = "open"]
    /\ subscribers' = subscribers \cup {w}
    /\ UNCHANGED <<is_running, current_symbol, current_price, price_history,
                   candlestick_data, timeframe, tasks, now, tick_count>>
    /\ UNCHANGED <<indicatorVars, watchVars>>

\* {'action': 'subscribe', 'symbol': symbol}
Subscribe(w, symbol, price, shape) ==
    /\ handlers[w] = "open"
    /\ \/ is_running = FALSE
       \/ current_symbol # symbol
    /\ start_streaming(symbol, price, shape)
    /\ UNCHANGED <<subscribers, timeframe, handlers, now, tick_count>>
    /\ UNCHANGED <<indicatorVars, watchVars>>

\* {'action': 'unsubscribe'}: stop_streaming() when running
Unsubscribe(w) ==
    /\ handlers[w] = "open"
    /\ is_running
    /\ is_running' = FALSE
    /\ UNCHANGED <<current_symbol, current_price, price_history, subscribers,
                   candlestick_data, timeframe, tasks, handlers, now, tick_count>>
    /\ UNCHANGED <<indicatorVars, watchVars>>

\* {'action': 'set_timeframe', 'timeframe': tf}: set_timeframe(tf)
SetTimeframe(w, tf, shape) ==
    /\ handlers[w] = "open"
    /\ tf # timeframe
    /\ timeframe' = tf
    /\ shape \in CandleShapes(current_price)
    /\ \E volume \in TickVolumes :
          candlestick_data' = initialize_candlestick_data(tf, now, shape, volume)
    /\ UNCHANGED <<is_running, current_symbol, current_price, price_history,
                   subscribers, tasks, handlers, now, tick_count>>
    /\ UNCHANGED <<indicatorVars, watchVars>>

\* the client goes away: the connection is closed, the handler has not run yet
Disconnect(w) ==
    /\ handlers[w] = "open"
    /\ handlers' = [handlers EXCEPT ![w] = "closing"]
    /\ UNCHANGED <<is_running, current_symbol, current_price, price_history,
                   subscribers, candlestick_data, timeframe, tasks, now, tick_count>>
    /\ UNCHANGED <<indicatorVars, watchVars>>

\* the handler leaves its async for: finally: unregister(websocket), and
\* subscribers.remove raises KeyError for a websocket that is not in the set
Unregister(w) ==
    /\ handlers[w] = "closing"
    /\ IF w \in subscribers
       THEN /\ subscribers' = subscribers \ {w}
            /\ handlers' = [handlers EXCEPT ![w] = "done"]
       ELSE /\ handlers' = [handlers EXCEPT ![w] = "failed"]
            /\ UNCHANGED subscribers
    /\ UNCHANGED <<is_running, current_symbol, current_price, price_history,
                   candlestick_data, timeframe, tasks, now, tick_count>>
    /\ UNCHANGED <<indicatorVars, watchVars>>

\* a loop that never tests is_running
StreamIterate_ignores_stop(t, price) ==
    /\ tasks[t].at = "ready"
    /\ tick_count < MaxTicks
    /\ tick_count' = tick_count + 1
    /\ \E volume \in TickVolumes :
          LET tick_data == [symbol |-> current_symbol, price |-> price,
                            timestamp |-> now, volume |-> volume]
          IN /\ current_price' = price
             /\ price_history' = append_tick(price_history, tick_data)
             /\ candlestick_data' =
                   update_candlestick_data(candlestick_data, timeframe, now, tick_data)
    /\ UNCHANGED <<tasks, is_running, current_symbol, subscribers, timeframe, handlers, now>>
    /\ UNCHANGED <<indicatorVars, watchVars>>

\* one pass of the while loop of _stream_data, from the test of is_running
\* (on creation or on waking from the sleep) to the next await that
\* suspends: the loop ends when is_running is false; otherwise a tick is
\* made, stored in price_history and in the candles, and
\* _notify_subscribers is entered.  Without subscribers it returns at once
\* and the task sleeps; with subscribers the for loop takes its first
\* subscriber and awaits the send.  price is the price after the random move.
StreamIterate(t, price) ==
    /\ tasks[t].at = "ready"
    /\ IF ~is_running
       THEN /\ tasks' = [tasks EXCEPT ![t].at = "done"]
            /\ UNCHANGED <<current_price, price_history, candlestick_data, tick_count>>
       ELSE /\ tick_count < MaxTicks
            /\ tick_count' = tick_count + 1
            /\ \E volume \in TickVolumes :
                  LET tick_data == [symbol |-> current_symbol, price |-> price,
                                    timestamp |-> now, volume |-> volume]
                  IN /\ current_price' = price
                     /\ price_history' = append_tick(price_history, tick_data)
                     /\ candlestick_data' =
                           update_candlestick_data(candlestick_data, timeframe, now, tick_data)
            /\ IF subscribers = {}
               THEN UNCHANGED tasks
               ELSE \E subscriber \in subscribers :
                      tasks' = [tasks EXCEPT ![t] =
                                  [at |-> "notify", seen |-> {subscriber},
                                   used |-> Cardinality(subscribers),
                                   disconnected |-> IF ConnectionClosed(subscriber)
                                                    THEN {subscriber} ELSE {}]]
    /\ UNCHANGED <<is_running, current_symbol, subscribers, timeframe, handlers, now>>
    /\ UNCHANGED <<indicatorVars, watchVars>>

\* the send returned: the for loop of _notify_subscribers asks the set for
\* its next element.  A set whose size changed during the iteration raises
\* RuntimeError, which ends the task; after the last subscriber the
\* disconnected ones are removed and the task sleeps.
NotifyResume(t) ==
    /\ tasks[t].at = "notify"
    /\ IF Cardinality(subscribers) # tasks[t].used
       THEN /\ tasks' = [tasks EXCEPT ![t] = [NoTask EXCEPT !.at = "failed"]]
            /\ UNCHANGED subscribers
       ELSE IF subscribers \ tasks[t].seen = {}
       THEN /\ subscribers' = subscribers \ tasks[t].disconnected
            /\ tasks' = [tasks EXCEPT ![t] = [NoTask EXCEPT !.at = "ready"]]
       ELSE /\ \E subscriber \in subscribers \ tasks[t].seen :
                  tasks' = [tasks EXCEPT
                              ![t].seen = @ \cup {subscriber},
                              ![t].disconnected = IF ConnectionClosed(subscriber)
                                                  THEN @ \cup {subscriber} ELSE @]
            /\ UNCHANGED subscribers
    /\ UNCHANGED <<is_running, current_symbol, current_price, price_history,
                   candlestick_data, timeframe, handlers, now, tick_count>>
    /\ UNCHANGED <<indicatorVars, watchVars>>

\* a minute passes
Elapse ==
    /\ now + 1 \in Instants
    /\ now' = now + 1
    /\ UNCHANGED <<is_running, current_symbol, current_price, price_history, subscribers,
                   candlestick_data, timeframe, tasks, handlers, tick_count>>
    /\ UNCHANGED <<indicatorVars, watchVars>>

StreamInit ==
    /\ data = <<>>
    /\ out = NoCall
    /\ indicators_arg = NoneArg
    /\ pc = "idle"
    /\ NoChart
    /\ StreamerConstructed
    /\ SessionInitialised

AllShapes == CandleShapes(0) \cup CandleShapes(1)
FlatShapes == {c \in AllShapes : c.Low = c.High}

\* Connections, commands and tasks in every interleaving; one price, flat
\* generated candles, one timeframe, a clock that stands still.
StreamNext ==
    \/ \E w \in Sockets : Connect(w)
    \/ \E w \in Sockets, symbol \in Symbols, shape \in FlatShapes :
          Subscribe(w, symbol, 1, shape)
    \/ \E w \in Sockets : Unsubscribe(w)
    \/ \E w \in Sockets : Disconnect(w)
    \/ \E w \in Sockets : Unregister(w)
    \/ \E t \in TaskIds : StreamIterate(t, 1)
    \/ \E t \in TaskIds : NotifyResume(t)

StreamSpec == StreamInit /\ [][StreamNext]_vars

\* the event loop runs every task that can run
FairStreamSpec ==
    /\ StreamSpec
    /\ \A t \in TaskIds : WF_vars(StreamIterate(t, 1)) /\ WF_vars(NotifyResume(t))

\* One connection; every price, generated candle shape and timeframe, and a
\* clock that moves.
CandleNext ==
    \/ Connect("ws1")
    \/ \E price \in Prices, shape \in AllShapes : Subscribe("ws1", "RELIANCE.NS", price, shape)
    \/ Unsubscribe("ws1")
    \/ \E tf \in Timeframes, shape \in AllShapes : SetTimeframe("ws1", tf, shape)
    \/ \E t \in TaskIds, price \in Prices : StreamIterate(t, price)
    \/ \E t \in TaskIds : NotifyResume(t)
    \/ Elapse

CandleSpec == StreamInit /\ [][CandleNext]_vars

\* the _stream_data tasks that have not ended
StreamLoops == {t \in TaskIds : tasks[t].at \in {"ready", "notify"}}

\* C25: while the streamer is running, at most one _stream_data loop is
\* alive to generate ticks.
C25_SingleStreamLoop == is_running => Cardinality(StreamLoops) <= 1

\* C26: no final unregister of ws_handler ends in KeyError, and no
\* iteration of _notify_subscribers finds the subscribers set changed.
C26_UnregisterSucceeds ==
    /\ \A w \in Sockets : handlers[w] # "failed"
    /\ \A t \in TaskIds : tasks[t].at # "failed"

ValidCandle(c) ==
    /\ c.Low <= c.Open /\ c.Open <= c.High
    /\ c.Low <= c.Close /\ c.Close <= c.High

\* this step is a tick made by _stream_data
TickStep == tick_count' = tick_count + 1

\* the tick of a tick step
TickMade == price_history'[Len(price_history')]

\* the candles that carry the time of the current candle
CurrentCandles ==
    {i \in 1..Len(candlestick_data) :
        candlestick_data[i].Time = current_candle_time(timeframe, now)}

TickInExistingCandle ==
    (TickStep /\ CurrentCandles # {}) =>
        LET i == CHOOSE i \in CurrentCandles : \A j \in CurrentCandles : i <= j
            before == candlestick_data[i]
            after == candlestick_data'[i]
        IN /\ Len(candlestick_data') = Len(candlestick_data)
           /\ \A j \in 1..Len(candlestick_data) :
                 j # i => candlestick_data'[j] = candlestick_data[j]
           /\ after.Time = before.Time
           /\ after.Open = before.Open
           /\ after.Close = TickMade.price
           /\ after.High = IF TickMade.price > before.High THEN TickMade.price ELSE before.High
           /\ after.Low = IF TickMade.price < before.Low THEN TickMade.price ELSE before.Low
           /\ after.Volume = before.Volume + TickMade.volume

\* C27: every candle has Low <= Open <= High and Low <= Close <= High, and
\* a tick in an existing candle keeps Open, sets Close to the tick price,
\* only raises High and lowers Low, and adds the tick volume.
C27_CandlesStayValid ==
    /\ [](\A i \in 1..Len(candlestick_data) : ValidCandle(candlestick_data[i]))
    /\ [][TickInExistingCandle]_vars

\* a candle made by a tick has been changed by a later tick with another price
C27_Witness ==
    \E i \in CurrentCandles :
        /\ candlestick_data[i].Volume > 1
        /\ candlestick_data[i].Open # candlestick_data[i].Close
        /\ candlestick_data[i].Close = current_price

\* a full buffer loses its oldest entry to the new one
OldestDroppedFirst ==
    TickStep =>
        /\ Len(price_history) = HistoryLimit =>
              /\ Len(price_history') = HistoryLimit
              /\ \A i \in 1..(HistoryLimit - 1) : price_history'[i] = price_history[i + 1]
        /\ (CurrentCandles = {} /\ Len(candlestick_data) = CandleLimit) =>
              /\ Len(candlestick_data') = CandleLimit
              /\ \A i \in 1..(CandleLimit - 1) : candlestick_data'[i] = candlestick_data[i + 1]
              /\ candlestick_data'[CandleLimit].Time = current_candle_time(timeframe, now)

\* C28: candlestick_data never holds more than CandleLimit candles and
\* price_history never more than HistoryLimit ticks; the candles are in the
\* order of their times, and what is dropped is the oldest entry.
C28_BuffersBounded ==
    /\ [](/\ Len(price_history) <= HistoryLimit
          /\ Len(candlestick_data) <= CandleLimit
          /\ \A i, j \in 1..Len(candlestick_data) :
                i < j => candlestick_data[i].Time < candlestick_data[j].Time)
    /\ [][OldestDroppedFirst]_vars

\* more ticks than the history holds, and a candle added to a full frame
C28_Witness ==
    /\ tick_count > HistoryLimit
    /\ Len(price_history) = HistoryLimit
    /\ Len(candlestick_data) = CandleLimit
    /\ candlestick_data[CandleLimit].Time = current_candle_time(timeframe, now)
    /\ candlestick_data[1].Time >= 0

WatchlistNames == {"Default", "Tech", "Banks"}

\* x in list
Contains(list, x) == \E i \in 1..Len(list) : list[i] = x

\* list.remove(x): the list without the first x
RemoveFirst(list, x) ==
    LET i == CHOOSE i \in 1..Len(list) :
                 list[i] = x /\ \A j \in 1..(i - 1) : list[j] # x
    IN SubSeq(list, 1, i - 1) \o SubSeq(list, i + 1, Len(list))

\* the dictionary with one more key, and with one key less
WithKey(dict, name, value) ==
    [n \in DOMAIN dict \cup {name} |-> IF n = name THEN value ELSE dict[n]]
WithoutKey(dict, name) == [n \in DOMAIN dict \ {name} |-> dict[n]]

Returns(call, name, symbol, value) ==
    returned' = [call |-> call, name |-> name, symbol |-> symbol, value |-> value]

\* an add that does not look for the symbol first
add_stock_to_watchlist_unchecked(symbol, watchlist_name) ==
    /\ watchlist_name \in DOMAIN watchlists
    /\ watchlists' = [watchlists EXCEPT ![watchlist_name] = Append(@, symbol)]
    /\ Returns("add_stock_to_watchlist", watchlist_name, symbol, "True")
    /\ UNCHANGED current_watchlist
    /\ UNCHANGED <<indicatorVars, streamVars>>

\* add_stock_to_watchlist(symbol, watchlist_name); watchlists[watchlist_name]
\* raises KeyError for a name that is no watchlist
add_stock_to_watchlist(symbol, watchlist_name) ==
    /\ IF watchlist_name \notin DOMAIN watchlists
       THEN /\ Returns("add_stock_to_watchlist", watchlist_name, symbol, "KeyError")
            /\ UNCHANGED watchlists
       ELSE IF Contains(watchlists[watchlist_name], symbol)
       THEN /\ Returns("add_stock_to_watchlist", watchlist_name, symbol, "False")
            /\ UNCHANGED watchlists
       ELSE /\ watchlists' = [watchlists EXCEPT ![watchlist_name] = Append(@, symbol)]
            /\ Returns("add_stock_to_watchlist", watchlist_name, symbol, "True")
    /\ UNCHANGED current_watchlist
    /\ UNCHANGED <<indicatorVars, streamVars>>

\* remove_stock_from_watchlist(symbol, watchlist_name)
remove_stock_from_watchlist(symbol, watchlist_name) ==
    /\ IF watchlist_name \notin DOMAIN watchlists
       THEN /\ Returns("remove_stock_from_watchlist", watchlist_name, symbol, "KeyError")
            /\ UNCHANGED watchlists
       ELSE IF Contains(watchlists[watchlist_name], symbol)
       THEN /\ watchlists' = [watchlists EXCEPT ![watchlist_name] = RemoveFirst(@, symbol)]
            /\ Returns("remove_stock_from_watchlist", watchlist_name, symbol, "True")
       ELSE /\ Returns("remove_stock_from_watchlist", watchlist_name, symbol, "False")
            /\ UNCHANGED watchlists
    /\ UNCHANGED current_watchlist
    /\ UNCHANGED <<indicatorVars, streamVars>>

\* create_new_watchlist(name)
create_new_watchlist(name) ==
    /\ IF name \in DOMAIN watchlists
       THEN /\ Returns("create_new_watchlist", name, "none", "False")
            /\ UNCHANGED <<watchlists, current_watchlist>>
       ELSE /\ watchlists' = WithKey(watchlists, name, <<>>)
            /\ current_watchlist' = name
            /\ Returns("create_new_watchlist", name, "none", "True")
    /\ UNCHANGED <<indicatorVars, streamVars>>

\* delete_watchlist(name)
delete_watchlist(name) ==
    /\ IF name = "Default"
       THEN /\ Returns("delete_watchlist", name, "none", "False")
            /\ UNCHANGED <<watchlists, current_watchlist>>
       ELSE IF name \in DOMAIN watchlists
       THEN /\ watchlists' = WithoutKey(watchlists, name)
            /\ current_watchlist' = "Default"
            /\ Returns("delete_watchlist", name, "none", "True")
       ELSE /\ Returns("delete_watchlist", name, "none", "False")
            /\ UNCHANGED <<watchlists, current_watchlist>>
    /\ UNCHANGED <<indicatorVars, streamVars>>

\* the selectbox of the sidebar: one of the watchlists is chosen
select_watchlist(selected_watchlist) ==
    /\ selected_watchlist \in DOMAIN watchlists
    /\ selected_watchlist # current_watchlist
    /\ current_watchlist' = selected_watchlist
    /\ UNCHANGED <<watchlists, returned>>
    /\ UNCHANGED <<indicatorVars, streamVars>>

WatchInit == StreamInit

WatchNext ==
    \/ \E symbol \in Symbols, name \in WatchlistNames : add_stock_to_watchlist(symbol, name)
    \/ \E symbol \in Symbols, name \in WatchlistNames : remove_stock_from_watchlist(symbol, name)
    \/ \E name \in WatchlistNames : create_new_watchlist(name)
    \/ \E name \in WatchlistNames : delete_watchlist(name)
    \/ \E name \in WatchlistNames : select_watchlist(name)

WatchSpec == WatchInit /\ [][WatchNext]_vars

NoSymbolTwice(list) == \A i, j \in 1..Len(list) : list[i] = list[j] => i = j

\* C30: "Default" exists, current_watchlist names a watchlist, no watchlist
\* holds a symbol twice, and a call that is rejected (it returns False)
\* leaves the watchlists as they were.
C30_WatchlistsConsistent ==
    /\ [](/\ "Default" \in DOMAIN watchlists
          /\ current_watchlist \in DOMAIN watchlists
          /\ \A n \in DOMAIN watchlists : NoSymbolTwice(watchlists[n]))
    /\ [][returned'.value = "False" => watchlists' = watchlists]_vars

\* a second watchlist with two symbols exists while another one is current,
\* and the last call was rejected
C30_Witness ==
    /\ \E n \in DOMAIN watchlists \ {"Default"} :
          Len(watchlists[n]) = 2 /\ current_watchlist # n
    /\ returned.value = "False"

====
